---------------------------- MODULE Spec2Model ----------------------------
(***************************************************************************)
(* wifi-config: a CLI (src/src/main.rs) around one library function,       *)
(* send_wifi_to_network_manager (src/src/lib.rs), which asks               *)
(* NetworkManager over the D-Bus system bus for its devices, takes the     *)
(* first one whose DeviceType is 2, and calls AddAndActivateConnection.    *)
(*                                                                         *)
(* The program is sequential and blocking.  One action of the model is     *)
(* the code from one blocking call to the next.  NetworkManager is the     *)
(* environment: the answer to a call is chosen when the call is first      *)
(* made and kept in the record nm, so that the service answers a repeated  *)
(* call as it answered before (it is stateless).                           *)
(*                                                                         *)
(* Text strings are sequences of Unicode code points, byte strings are     *)
(* sequences of 0..255, so that str::as_bytes is a real conversion.        *)
(***************************************************************************)
EXTENDS Integers, Sequences, FiniteSets, TLC

\* ------------------------------------------------------------- bounds
\* Longest device list GetDevices returns (and number of distinct paths).
MaxDevices == 3
\* Most command-line arguments after the program name.
MaxArgs == 3
\* Longest SSID / password, in code points.
MaxStrLen == 1

\* ---------------------------------------------------------- constants
\* lib.rs:64  `if device_type == 2`  (type 2 means Wi-Fi)
WIFI_DEVICE_TYPE == 2
\* main.rs:19 `if args.len() != 3`   (program name + SSID + PASSWORD)
EXPECTED_ARGC == 3
\* main.rs:21 `std::process::exit(1)`
USAGE_EXIT_CODE == 1
\* main.rs:27 `Ok(())` returned from main
OK_EXIT_CODE == 0
\* exit status of a Rust process whose main thread panicked (the unwraps)
PANIC_EXIT_CODE == 101

\* ------------------------------------------------------------- inputs
\* Code points used in arguments: 'A' (1 byte in UTF-8), U+00E9 (2 bytes).
Chars == {65, 233}

Strings == UNION {[1..n -> Chars] : n \in 0..MaxStrLen}

ProgName == <<65>>

ArgVectors == UNION {[1..n -> Strings] : n \in 0..MaxArgs}

\* Object paths.
NM_PATH == [kind |-> "/org/freedesktop/NetworkManager", id |-> 0]
ROOT_PATH == [kind |-> "/", id |-> 0]
DevicePath(i) == [kind |-> "/org/freedesktop/NetworkManager/Devices/", id |-> i]
DevicePaths == {DevicePath(i) : i \in 1..MaxDevices}

\* What a DeviceType property read can answer: a u32, or an error.
DeviceTypes == {1, 2, 5}
TypeAnswers == {[ok |-> TRUE, value |-> t] : t \in DeviceTypes}
                 \cup {[ok |-> FALSE, value |-> 0]}

\* The service's devices, in the order GetDevices lists them, each with the
\* answer its DeviceType read gives.  Object paths are distinct.
DeviceTables ==
  UNION {{t \in [1..n -> [path : DevicePaths, type : TypeAnswers]] :
            \A i, j \in 1..n : t[i].path = t[j].path => i = j}
         : n \in 0..MaxDevices}

\* What GetDevices can answer: an error, or a device table.
GetDevicesAnswers ==
  {[asked |-> TRUE, ok |-> FALSE, value |-> <<>>]}
    \cup {[asked |-> TRUE, ok |-> TRUE, value |-> t] : t \in DeviceTables}

\* What AddAndActivateConnection can answer: success, or an error with detail.
ActivateAnswers ==
  {[asked |-> TRUE, ok |-> TRUE, detail |-> ""],
   [asked |-> TRUE, ok |-> FALSE, detail |-> "org.freedesktop.NetworkManager.Error1"],
   [asked |-> TRUE, ok |-> FALSE, detail |-> "org.freedesktop.NetworkManager.Error2"]}

\* Before the session is open and any call was made.
NoService == [known |-> FALSE,
              getDevices |-> [asked |-> FALSE, ok |-> FALSE, value |-> <<>>],
              activate |-> [asked |-> FALSE, ok |-> FALSE, detail |-> ""]]

\* -------------------------------------------------------------- state
VARIABLES
  pc,                  \* position of the one thread of control
  args,                \* std::env::args(), program name first
  ssid, password,      \* parameters of send_wifi_to_network_manager
  nm,                  \* NetworkManager's answers (the environment)
  devices,             \* lib.rs:47  the Vec<dbus::Path> GetDevices returned
  idx,                 \* lib.rs:53  position of the `for` loop in devices
  wifi_device_path,    \* lib.rs:51  Option<dbus::Path>
  connection_settings, \* lib.rs:77  the profile
  calls,               \* remote calls issued in this invocation, in order
  stdout, stderr,      \* what was printed
  exitCode,            \* process exit status, -1 while it runs
  invocation,          \* which invocation of the library function runs
  firstCalls           \* the calls of the first invocation, once it returned

vars == <<pc, args, ssid, password, nm, devices, idx, wifi_device_path,
          connection_settings, calls, stdout, stderr, exitCode,
          invocation, firstCalls>>

None == [some |-> FALSE, path |-> ROOT_PATH]
Some(p) == [some |-> TRUE, path |-> p]

EmptyMap == [k \in {} |-> 0]

\* HashMap::insert
Insert(m, k, v) == [x \in DOMAIN m \cup {k} |-> IF x = k THEN v ELSE m[x]]

\* ------------------------------------------------------ pure functions
\* UTF-8 encoding of one code point (what str::as_bytes exposes).
Utf8(c) ==
  IF c < 128 THEN <<c>>
  ELSE IF c < 2048 THEN <<192 + (c \div 64), 128 + (c % 64)>>
  ELSE IF c < 65536
    THEN <<224 + (c \div 4096), 128 + ((c \div 64) % 64), 128 + (c % 64)>>
    ELSE <<240 + (c \div 262144), 128 + ((c \div 4096) % 64),
           128 + ((c \div 64) % 64), 128 + (c % 64)>>

\* Variant of AsBytes: each code point taken as one byte (Latin-1).
AsBytesLatin1(s) == s

RECURSIVE AsBytes(_)
AsBytes(s) == IF s = <<>> THEN <<>> ELSE Utf8(Head(s)) \o AsBytes(Tail(s))

\* Variant(Box::new(Vec<u8>)) and Variant(Box::new(String))
ByteArray(b) == [sig |-> "ay", value |-> b]
Text(s) == [sig |-> "s", value |-> s]

\* lib.rs:81-84
WifiSettings(s) ==
  Insert(Insert(EmptyMap, "ssid", ByteArray(AsBytes(s))),
         "mode", [sig |-> "s", value |-> "infrastructure"])

\* lib.rs:87-90
WifiSecurity(p) ==
  Insert(Insert(EmptyMap, "key-mgmt", [sig |-> "s", value |-> "wpa-psk"]),
         "psk", Text(p))

\* Variant of BuildProfile: the profile also carries a connection id that
\* counts the invocations.
BuildProfileWithId(s, p) ==
  Insert(Insert(Insert(EmptyMap, "802-11-wireless", WifiSettings(s)),
                "802-11-wireless-security", WifiSecurity(p)),
         "connection", Insert(EmptyMap, "id", [sig |-> "u", value |-> invocation]))

\* lib.rs:77-90
BuildProfile(s, p) ==
  Insert(Insert(EmptyMap, "802-11-wireless", WifiSettings(s)),
         "802-11-wireless-security", WifiSecurity(p))

\* Variant of IsWifi: every type from 2 up counts as Wi-Fi.
IsWifiAtLeast(device_type) == device_type >= WIFI_DEVICE_TYPE

\* lib.rs:64
IsWifi(device_type) == device_type = WIFI_DEVICE_TYPE

Call(method, path, a) == [method |-> method, path |-> path, args |-> a]

GetDevicesCall == Call("GetDevices", NM_PATH, <<>>)
DeviceTypeCall(p) ==
  Call("Get", p, <<"org.freedesktop.NetworkManager.Device", "DeviceType">>)
ActivateCall(profile, device) ==
  Call("AddAndActivateConnection", NM_PATH, <<profile, device, ROOT_PATH>>)

\* The answer the service gives to a DeviceType read of path p.
TypeOf(p) ==
  LET t == nm.getDevices.value
      i == CHOOSE i \in 1..Len(t) : t[i].path = p
  IN t[i].type

\* ----------------------------------------------------------- messages
\* main.rs:20
USAGE_MSG == [msg |-> "Usage: wifi-config <SSID> <PASSWORD>", detail |-> ""]
\* lib.rs:71
NOT_FOUND_MSG == [msg |-> "Wi-Fi device not found.", detail |-> ""]
\* lib.rs:99
SUCCESS_MSG == "Wi-Fi configuration successfully sent."
\* lib.rs:100  "Failed to configure Wi-Fi: {}" with the error e
FailedMsg(e) == [msg |-> "Failed to configure Wi-Fi: ", detail |-> e]
\* what the panic hook prints for an unwrap on Err
PanicMsg(what) == [msg |-> "called Result::unwrap() on an Err value", detail |-> what]

\* ------------------------------------------------------------- aborts
\* Result::unwrap on Err: the thread panics, the process ends with 101.
Panic(what) ==
  /\ pc' = "aborted"
  /\ stderr' = Append(stderr, PanicMsg(what))
  /\ exitCode' = PANIC_EXIT_CODE

\* ------------------------------------------------------------ actions
\* Variant of MainStart: only too few arguments are refused (`args.len() < 3`).
MainStartAtLeast ==
  /\ pc = "main"
  /\ IF Len(args) < EXPECTED_ARGC
       THEN /\ stderr' = Append(stderr, USAGE_MSG)
            /\ exitCode' = USAGE_EXIT_CODE
            /\ pc' = "exited"
            /\ UNCHANGED <<ssid, password>>
       ELSE /\ ssid' = args[2]
            /\ password' = args[3]
            /\ pc' = "new_system"
            /\ UNCHANGED <<stderr, exitCode>>
  /\ UNCHANGED <<args, nm, devices, idx, wifi_device_path, connection_settings,
                 calls, stdout, invocation, firstCalls>>

\* main.rs:15-26  main up to the call of the library function.
MainStart ==
  /\ pc = "main"
  /\ IF Len(args) # EXPECTED_ARGC
       THEN /\ stderr' = Append(stderr, USAGE_MSG)
            /\ exitCode' = USAGE_EXIT_CODE
            /\ pc' = "exited"
            /\ UNCHANGED <<ssid, password>>
       ELSE /\ ssid' = args[2]
            /\ password' = args[3]
            /\ pc' = "new_system"
            /\ UNCHANGED <<stderr, exitCode>>
  /\ UNCHANGED <<args, nm, devices, idx, wifi_device_path, connection_settings,
                 calls, stdout, invocation, firstCalls>>

\* lib.rs:40-46  Connection::new_system().unwrap() and the proxy.
\* The bus may refuse the session; a bus that gave one gives it again.
NewSystem ==
  /\ pc = "new_system"
  /\ \/ /\ ~nm.known
        /\ Panic("Connection::new_system")
        /\ UNCHANGED nm
     \/ /\ nm' = [nm EXCEPT !.known = TRUE]
        /\ pc' = "get_devices"
        /\ UNCHANGED <<stderr, exitCode>>
  /\ UNCHANGED <<args, ssid, password, devices, idx, wifi_device_path,
                 connection_settings, calls, stdout, invocation, firstCalls>>

\* lib.rs:47-51  the GetDevices call, its unwrap, and the loop's set-up.
GetDevices ==
  /\ pc = "get_devices"
  /\ calls' = Append(calls, GetDevicesCall)
  /\ \E reply \in (IF nm.getDevices.asked THEN {nm.getDevices} ELSE GetDevicesAnswers) :
       /\ nm' = [nm EXCEPT !.getDevices = reply]
       /\ IF ~reply.ok
            THEN /\ Panic("GetDevices")
                 /\ UNCHANGED <<devices, idx, wifi_device_path>>
            ELSE /\ devices' = [i \in 1..Len(reply.value) |-> reply.value[i].path]
                 /\ wifi_device_path' = None
                 /\ idx' = 1
                 /\ pc' = IF Len(reply.value) = 0 THEN "guard" ELSE "scan"
                 /\ UNCHANGED <<stderr, exitCode>>
  /\ UNCHANGED <<args, ssid, password, connection_settings, stdout,
                 invocation, firstCalls>>

\* Variant of ScanDevice: no `break` after a match, the loop runs to the end
\* of the list and the last match stays.
ScanDeviceNoBreak ==
  /\ pc = "scan"
  /\ idx <= Len(devices)
  /\ LET device == devices[idx]
         answer == TypeOf(device)
     IN /\ calls' = Append(calls, DeviceTypeCall(device))
        /\ IF ~answer.ok
             THEN /\ Panic("DeviceType")
                  /\ UNCHANGED <<idx, wifi_device_path>>
             ELSE /\ wifi_device_path' =
                       IF answer.value = WIFI_DEVICE_TYPE
                         THEN Some(device) ELSE wifi_device_path
                  /\ idx' = idx + 1
                  /\ pc' = IF idx + 1 > Len(devices) THEN "guard" ELSE "scan"
                  /\ UNCHANGED <<stderr, exitCode>>
  /\ UNCHANGED <<args, ssid, password, nm, devices, connection_settings, stdout,
                 invocation, firstCalls>>

\* Variant of ScanDevice: a failed DeviceType read is skipped, not unwrapped.
ScanDeviceSkipErr ==
  /\ pc = "scan"
  /\ idx <= Len(devices)
  /\ LET device == devices[idx]
         answer == TypeOf(device)
     IN /\ calls' = Append(calls, DeviceTypeCall(device))
        /\ IF answer.ok /\ answer.value = WIFI_DEVICE_TYPE
             THEN /\ wifi_device_path' = Some(device)
                  /\ pc' = "guard"
                  /\ UNCHANGED <<idx, stderr, exitCode>>
             ELSE /\ idx' = idx + 1
                  /\ pc' = IF idx + 1 > Len(devices) THEN "guard" ELSE "scan"
                  /\ UNCHANGED <<wifi_device_path, stderr, exitCode>>
  /\ UNCHANGED <<args, ssid, password, nm, devices, connection_settings, stdout,
                 invocation, firstCalls>>

\* lib.rs:53-68  one iteration of `for device in devices`.
ScanDevice ==
  /\ pc = "scan"
  /\ idx <= Len(devices)
  /\ LET device == devices[idx]
         answer == TypeOf(device)
     IN /\ calls' = Append(calls, DeviceTypeCall(device))
        /\ IF ~answer.ok
             THEN /\ Panic("DeviceType")
                  /\ UNCHANGED <<idx, wifi_device_path>>
             ELSE IF IsWifi(answer.value)
               THEN /\ wifi_device_path' = Some(device)
                    /\ pc' = "guard"
                    /\ UNCHANGED <<idx, stderr, exitCode>>
               ELSE /\ idx' = idx + 1
                    /\ pc' = IF idx + 1 > Len(devices) THEN "guard" ELSE "scan"
                    /\ UNCHANGED <<wifi_device_path, stderr, exitCode>>
  /\ UNCHANGED <<args, ssid, password, nm, devices, connection_settings, stdout,
                 invocation, firstCalls>>

\* Variant of GuardAndBuild: the guard tests is_some() where it should test
\* is_none().
GuardAndBuildInverted ==
  /\ pc = "guard"
  /\ IF wifi_device_path.some
       THEN /\ stderr' = Append(stderr, NOT_FOUND_MSG)
            /\ pc' = "returned"
            /\ UNCHANGED connection_settings
       ELSE /\ connection_settings' = BuildProfile(ssid, password)
            /\ pc' = "activate"
            /\ UNCHANGED stderr
  /\ UNCHANGED <<args, ssid, password, nm, devices, idx, wifi_device_path, calls,
                 stdout, exitCode, invocation, firstCalls>>

\* lib.rs:70-90  the no-device guard, then the profile.
GuardAndBuild ==
  /\ pc = "guard"
  /\ IF ~wifi_device_path.some
       THEN /\ stderr' = Append(stderr, NOT_FOUND_MSG)
            /\ pc' = "returned"
            /\ UNCHANGED connection_settings
       ELSE /\ connection_settings' = BuildProfile(ssid, password)
            /\ pc' = "activate"
            /\ UNCHANGED stderr
  /\ UNCHANGED <<args, ssid, password, nm, devices, idx, wifi_device_path, calls,
                 stdout, exitCode, invocation, firstCalls>>

\* Variant of Activate: the result is unwrapped like the other calls'.
ActivateUnwrap ==
  /\ pc = "activate"
  /\ calls' = Append(calls, ActivateCall(connection_settings, wifi_device_path.path))
  /\ \E result \in (IF nm.activate.asked THEN {nm.activate} ELSE ActivateAnswers) :
       /\ nm' = [nm EXCEPT !.activate = result]
       /\ IF result.ok
            THEN /\ stdout' = Append(stdout, SUCCESS_MSG)
                 /\ pc' = "returned"
                 /\ UNCHANGED <<stderr, exitCode>>
            ELSE /\ Panic("AddAndActivateConnection")
                 /\ UNCHANGED stdout
  /\ UNCHANGED <<args, ssid, password, devices, idx, wifi_device_path,
                 connection_settings, invocation, firstCalls>>

\* Variant of Activate: a failed call is issued once more.
ActivateRetry ==
  /\ pc = "activate"
  /\ calls' = Append(calls, ActivateCall(connection_settings, wifi_device_path.path))
  /\ \E result \in (IF nm.activate.asked THEN {nm.activate} ELSE ActivateAnswers) :
       /\ nm' = [nm EXCEPT !.activate = result]
       /\ IF result.ok
            THEN /\ stdout' = Append(stdout, SUCCESS_MSG)
                 /\ pc' = "returned"
                 /\ UNCHANGED stderr
            ELSE /\ stderr' = Append(stderr, FailedMsg(result.detail))
                 /\ pc' = IF calls # <<>> /\ calls[Len(calls)].method = "AddAndActivateConnection"
                            THEN "returned" ELSE "activate"
                 /\ UNCHANGED stdout
  /\ UNCHANGED <<args, ssid, password, devices, idx, wifi_device_path,
                 connection_settings, exitCode, invocation, firstCalls>>

\* lib.rs:92-102  the AddAndActivateConnection call and the report.
Activate ==
  /\ pc = "activate"
  /\ calls' = Append(calls, ActivateCall(connection_settings, wifi_device_path.path))
  /\ \E result \in (IF nm.activate.asked THEN {nm.activate} ELSE ActivateAnswers) :
       /\ nm' = [nm EXCEPT !.activate = result]
       /\ IF result.ok
            THEN /\ stdout' = Append(stdout, SUCCESS_MSG)
                 /\ UNCHANGED stderr
            ELSE /\ stderr' = Append(stderr, FailedMsg(result.detail))
                 /\ UNCHANGED stdout
  /\ pc' = "returned"
  /\ UNCHANGED <<args, ssid, password, devices, idx, wifi_device_path,
                 connection_settings, exitCode, invocation, firstCalls>>

\* Variant of MainEnd: a diagnostic on the error stream makes the exit code 1.
MainEndPropagate ==
  /\ pc = "returned"
  /\ exitCode' = IF stderr # <<>> THEN USAGE_EXIT_CODE ELSE OK_EXIT_CODE
  /\ pc' = "exited"
  /\ UNCHANGED <<args, ssid, password, nm, devices, idx, wifi_device_path,
                 connection_settings, calls, stdout, stderr, invocation, firstCalls>>

\* main.rs:26-28  the function returned; main returns Ok(()).
MainEnd ==
  /\ pc = "returned"
  /\ exitCode' = OK_EXIT_CODE
  /\ pc' = "exited"
  /\ UNCHANGED <<args, ssid, password, nm, devices, idx, wifi_device_path,
                 connection_settings, calls, stdout, stderr, invocation, firstCalls>>

\* ------------------------------------------------------ specification
\* The state when main is entered.  exitCode is -1 while the process runs.
Init ==
  /\ pc = "main"
  /\ args \in {<<ProgName>> \o a : a \in ArgVectors}
  /\ ssid = <<>>
  /\ password = <<>>
  /\ nm = NoService
  /\ devices = <<>>
  /\ idx = 1
  /\ wifi_device_path = None
  /\ connection_settings = EmptyMap
  /\ calls = <<>>
  /\ stdout = <<>>
  /\ stderr = <<>>
  /\ exitCode = -1
  /\ invocation = 1
  /\ firstCalls = <<>>

Next ==
  \/ MainStart
  \/ NewSystem
  \/ GetDevices
  \/ ScanDevice
  \/ GuardAndBuild
  \/ Activate
  \/ MainEnd

Spec == Init /\ [][Next]_vars

\* ------------------------------------------- two calls of the function
\* The library function called twice with the same (ssid, password) by a
\* caller other than main, the bus and the service answering the second
\* call as they answered the first.
InitTwice ==
  /\ pc = "new_system"
  /\ args = <<ProgName>>
  /\ ssid \in Strings
  /\ password \in Strings
  /\ nm = NoService
  /\ devices = <<>>
  /\ idx = 1
  /\ wifi_device_path = None
  /\ connection_settings = EmptyMap
  /\ calls = <<>>
  /\ stdout = <<>>
  /\ stderr = <<>>
  /\ exitCode = -1
  /\ invocation = 1
  /\ firstCalls = <<>>

\* The first call returned; the caller calls again with the same arguments.
CallAgain ==
  /\ pc = "returned"
  /\ invocation = 1
  /\ firstCalls' = calls
  /\ calls' = <<>>
  /\ invocation' = 2
  /\ pc' = "new_system"
  /\ UNCHANGED <<args, ssid, password, nm, devices, idx, wifi_device_path,
                 connection_settings, stdout, stderr, exitCode>>

NextTwice ==
  \/ NewSystem
  \/ GetDevices
  \/ ScanDevice
  \/ GuardAndBuild
  \/ Activate
  \/ CallAgain

SpecTwice == InitTwice /\ [][NextTwice]_vars

\* ---------------------------------------------------- what a run shows
\* The service's device table, once GetDevices can answer with it.
HasTable == nm.known /\ nm.getDevices.asked /\ nm.getDevices.ok
Table == nm.getDevices.value

Reads == SelectSeq(calls, LAMBDA c : c.method = "Get")
Activations == SelectSeq(calls, LAMBDA c : c.method = "AddAndActivateConnection")
Enumerations == SelectSeq(calls, LAMBDA c : c.method = "GetDevices")

\* Entry n of table t answers 2 and every entry before it answers another type.
FirstWifiAt(t, n) ==
  /\ n \in 1..Len(t)
  /\ t[n].type.ok /\ t[n].type.value = 2
  /\ \A i \in 1..(n - 1) : t[i].type.ok /\ t[i].type.value # 2

\* Entry n of table t fails its read and every entry before it answers a
\* type other than 2: the scan reaches entry n.
FirstErrAt(t, n) ==
  /\ n \in 1..Len(t)
  /\ ~t[n].type.ok
  /\ \A i \in 1..(n - 1) : t[i].type.ok /\ t[i].type.value # 2

NoWifiIn(t) == \A i \in 1..Len(t) : t[i].type.ok /\ t[i].type.value # 2

\* The DeviceType reads of entries 1..n of the table, in list order.
ReadsOfFirst(n) ==
  [i \in 1..n |-> [method |-> "Get", path |-> Table[i].path,
                   args |-> <<"org.freedesktop.NetworkManager.Device", "DeviceType">>]]

FunctionReturned == pc \in {"returned", "exited"}
ScanOver == pc \in {"guard", "activate", "returned", "exited"}

\* The outcomes of the provisioning step, as a run reports them.
Succeeded == stdout = <<SUCCESS_MSG>> /\ stderr = <<>>
NoWifiDeviceFound == stdout = <<>> /\ stderr = <<NOT_FOUND_MSG>>
RemoteCallFailed(detail) ==
  stdout = <<>> /\ stderr = <<[msg |-> "Failed to configure Wi-Fi: ", detail |-> detail]>>
Aborted == pc = "aborted"

\* ------------------------------------------------------------- claims
\* C1  Device selection: when entry N of the list GetDevices returned is the
\* first whose DeviceType read answers 2 (every read before it succeeding),
\* the DeviceType reads issued are those of entries 0..N in list order and of
\* no entry after N, and the device handed to AddAndActivateConnection is
\* entry N.
C1_DeviceSelection ==
  \A n \in 1..MaxDevices :
    (HasTable /\ FirstWifiAt(Table, n)) =>
      /\ Len(Reads) <= n
      /\ Reads = SubSeq(ReadsOfFirst(n), 1, Len(Reads))
      /\ ScanOver => Reads = ReadsOfFirst(n)
      /\ \A k \in 1..Len(Activations) : Activations[k].args[2] = Table[n].path
      /\ FunctionReturned => Len(Activations) = 1
      /\ pc # "aborted"

\* [A(1), B(2), C(2)]: B was selected and C never read.
C1_Witness ==
  /\ pc = "exited"
  /\ HasTable /\ Len(Table) = 3 /\ FirstWifiAt(Table, 2)
  /\ Table[3].type.ok /\ Table[3].type.value = 2
  /\ Len(Reads) = 2
  /\ Len(Activations) = 1 /\ Activations[1].args[2] = Table[2].path

\* C2  No-device path: when no entry of the list has DeviceType 2 (every read
\* succeeding), the run ends in NoWifiDeviceFound and AddAndActivateConnection
\* is never issued.
C2_NoDevicePath ==
  (HasTable /\ NoWifiIn(Table)) =>
    /\ Activations = <<>>
    /\ pc \notin {"activate", "aborted"}
    /\ ~wifi_device_path.some
    /\ FunctionReturned => NoWifiDeviceFound

\* [A(1), B(5)]: both were read, the diagnostic was printed, nothing activated.
C2_Witness ==
  /\ pc = "exited"
  /\ HasTable /\ Len(Table) = 2
  /\ Table[1].type = [ok |-> TRUE, value |-> 1]
  /\ Table[2].type = [ok |-> TRUE, value |-> 5]
  /\ Len(Reads) = 2
  /\ NoWifiDeviceFound

\* C3  Empty device list: when GetDevices returns the empty sequence, the run
\* ends in NoWifiDeviceFound with GetDevices its only remote call: no
\* DeviceType read, no AddAndActivateConnection.
C3_EmptyDeviceList ==
  (HasTable /\ Table = <<>>) =>
    /\ Reads = <<>>
    /\ Activations = <<>>
    /\ Len(calls) <= 1
    /\ pc \notin {"scan", "activate", "aborted"}
    /\ FunctionReturned => (calls = <<GetDevicesCall>> /\ NoWifiDeviceFound)

C3_Witness ==
  /\ pc = "exited"
  /\ HasTable /\ Table = <<>>
  /\ Len(calls) = 1 /\ calls[1].method = "GetDevices"
  /\ stderr = <<NOT_FOUND_MSG>>

\* The UTF-8 bytes of the code points of Chars, as the standard gives them.
KnownUtf8 == (65 :> <<65>>) @@ (233 :> <<195, 169>>)

RECURSIVE BytesOf(_)
BytesOf(s) == IF s = <<>> THEN <<>> ELSE KnownUtf8[Head(s)] \o BytesOf(Tail(s))

\* C4  Payload shape: whenever AddAndActivateConnection is issued for SSID s
\* and password p, its profile has exactly the groups "802-11-wireless"
\* (ssid = the bytes of s as a byte array, mode = "infrastructure") and
\* "802-11-wireless-security" (key-mgmt = "wpa-psk", psk = p unmodified), and
\* its third argument is the path "/".
C4_PayloadShape ==
  \A k \in 1..Len(Activations) :
    LET a == Activations[k].args
        profile == a[1]
        wireless == profile["802-11-wireless"]
        security == profile["802-11-wireless-security"]
    IN /\ Len(a) = 3
       /\ DOMAIN profile = {"802-11-wireless", "802-11-wireless-security"}
       /\ DOMAIN wireless = {"ssid", "mode"}
       /\ wireless["ssid"].sig = "ay"
       /\ wireless["ssid"].value = BytesOf(args[2])
       /\ \A i \in 1..Len(wireless["ssid"].value) : wireless["ssid"].value[i] \in 0..255
       /\ wireless["mode"] = [sig |-> "s", value |-> "infrastructure"]
       /\ DOMAIN security = {"key-mgmt", "psk"}
       /\ security["key-mgmt"] = [sig |-> "s", value |-> "wpa-psk"]
       /\ security["psk"].sig = "s"
       /\ security["psk"].value = args[3]
       /\ a[3] = [kind |-> "/", id |-> 0]

\* An activation was issued for a non-ASCII SSID and a non-empty password.
C4_Witness ==
  /\ Len(Activations) = 1
  /\ Len(args) = 3 /\ args[2] = <<233>> /\ args[3] = <<65>>
  /\ Activations[1].args[1]["802-11-wireless"]["ssid"].value = <<195, 169>>
  /\ Activations[1].args[1]["802-11-wireless-security"]["psk"].value = <<65>>

\* C5  Activation failure: when a Wi-Fi device was found and
\* AddAndActivateConnection returns an error, the outcome is RemoteCallFailed
\* with the service's error detail, the process does not abort, the success
\* confirmation is not printed and the call is not issued again.
C5_ActivationFailure ==
  (HasTable /\ nm.activate.asked /\ ~nm.activate.ok
     /\ \E n \in 1..Len(Table) : FirstWifiAt(Table, n)) =>
    /\ pc # "aborted"
    /\ exitCode # PANIC_EXIT_CODE
    /\ stdout = <<>>
    /\ Len(Activations) = 1
    /\ FunctionReturned
    /\ RemoteCallFailed(nm.activate.detail)

C5_Witness ==
  /\ pc = "returned"
  /\ HasTable /\ nm.activate.asked /\ ~nm.activate.ok
  /\ Len(Activations) = 1
  /\ stderr = <<[msg |-> "Failed to configure Wi-Fi: ",
                 detail |-> "org.freedesktop.NetworkManager.Error2"]>>

\* C6  Exit status: with exactly two CLI arguments, a run that reaches the end
\* of main exits with code 0, whether the provisioning step ended in
\* Succeeded, NoWifiDeviceFound or RemoteCallFailed.
C6_ExitStatus ==
  /\ pc = "returned" =>
       /\ Len(args) = 3
       /\ \/ Succeeded
          \/ NoWifiDeviceFound
          \/ \E a \in ActivateAnswers : ~a.ok /\ RemoteCallFailed(a.detail)
  /\ (pc = "exited" /\ Len(args) = 3) =>
       /\ exitCode = 0
       /\ \/ Succeeded
          \/ NoWifiDeviceFound
          \/ \E a \in ActivateAnswers : ~a.ok /\ RemoteCallFailed(a.detail)

\* The remote call was rejected and the process still exited with 0.
C6_Witness ==
  /\ pc = "exited" /\ Len(args) = 3
  /\ exitCode = 0
  /\ RemoteCallFailed("org.freedesktop.NetworkManager.Error1")

\* C7  Argument-count guard: when the number of CLI arguments after the
\* program name is not 2, the program prints the usage message and exits with
\* code 1 before opening the bus session: no remote call is issued.
C7_ArgumentCountGuard ==
  Len(args) # 3 =>
    /\ pc \in {"main", "exited"}
    /\ ~nm.known
    /\ calls = <<>>
    /\ stdout = <<>>
    /\ pc = "exited" => (exitCode = 1 /\ stderr = <<USAGE_MSG>>)

\* Three arguments were given and the program ended with the usage message.
C7_Witness ==
  /\ pc = "exited"
  /\ Len(args) = 4
  /\ exitCode = 1
  /\ stderr = <<[msg |-> "Usage: wifi-config <SSID> <PASSWORD>", detail |-> ""]>>

\* Call sequence a is the first Len(a) calls of b, argument for argument.
IsPrefixOfCalls(a, b) ==
  /\ Len(a) <= Len(b)
  /\ \A i \in 1..Len(a) :
       /\ a[i].method = b[i].method
       /\ a[i].path = b[i].path
       /\ Len(a[i].args) = Len(b[i].args)
       /\ a[i].args = b[i].args

C9_FatalFailures ==
  /\ pc = "aborted" =>
       /\ exitCode = 101
       /\ stdout = <<>>
       /\ Len(stderr) = 1 /\ stderr[1].msg = "called Result::unwrap() on an Err value"
       /\ Activations = <<>>
       /\ ~ENABLED Next
       /\ \/ ~nm.known /\ ~nm.getDevices.asked /\ calls = <<>>
          \/ /\ nm.known /\ nm.getDevices.asked /\ ~nm.getDevices.ok
             /\ calls = <<GetDevicesCall>>
          \/ /\ HasTable
             /\ \E n \in 1..Len(Table) :
                  /\ FirstErrAt(Table, n)
                  /\ calls = <<GetDevicesCall>> \o ReadsOfFirst(n)
  /\ (nm.getDevices.asked /\ ~nm.getDevices.ok) => pc = "aborted"
  /\ (HasTable /\ \E n \in 1..Len(Table) : FirstErrAt(Table, n)) =>
       /\ pc \in {"scan", "aborted"}
       /\ ~wifi_device_path.some
  /\ (HasTable /\ \E n \in 1..Len(Table) : FirstWifiAt(Table, n)) => pc # "aborted"

\* [A(1), B(error), C(2)]: the run aborted on B; C was never read.
C9_Witness ==
  /\ pc = "aborted"
  /\ HasTable /\ Len(Table) = 3
  /\ FirstErrAt(Table, 2)
  /\ Table[3].type.ok /\ Table[3].type.value = 2
  /\ Len(Reads) = 2
  /\ Reads[2].path = Table[2].path

\* How far the run is: every step moves forward.
PcRank ==
  CASE pc = "main" -> 0
    [] pc = "new_system" -> 1
    [] pc = "get_devices" -> 2
    [] pc = "scan" -> 2 + idx
    [] pc = "guard" -> 3 + MaxDevices
    [] pc = "activate" -> 4 + MaxDevices
    [] pc = "returned" -> 5 + MaxDevices
    [] pc \in {"exited", "aborted"} -> 6 + MaxDevices

Terminated == pc \in {"exited", "aborted"}

C10_State ==
  /\ Len(Enumerations) <= 1
  /\ pc \in {"scan", "guard", "activate", "returned"} =>
       (nm.known /\ Len(Enumerations) = 1)
  /\ calls # <<>> => (nm.known /\ calls[1] = GetDevicesCall)
  /\ Reads # <<>> => HasTable
  /\ nm.getDevices.asked <=> Len(Enumerations) = 1
  /\ nm.activate.asked <=> Len(Activations) = 1
  /\ \A i, j \in 1..Len(Reads) : Reads[i].path = Reads[j].path => i = j
  /\ Len(Activations) <= 1
  /\ Activations # <<>> =>
       /\ calls[Len(calls)].method = "AddAndActivateConnection"
       /\ Len(calls) >= 3
       /\ calls[Len(calls) - 1].method = "Get"
       /\ TypeOf(calls[Len(calls) - 1].path) = [ok |-> TRUE, value |-> 2]
  /\ Len(calls) <= 1 + (IF HasTable THEN Len(Table) ELSE 0) + 1
  /\ Terminated <=> ~ENABLED Next
  /\ (Terminated /\ Len(args) = 3) =>
       Cardinality({o \in {"Succeeded", "NoWifiDeviceFound", "RemoteCallFailed", "Aborted"} :
                      \/ o = "Succeeded" /\ Succeeded
                      \/ o = "NoWifiDeviceFound" /\ NoWifiDeviceFound
                      \/ o = "RemoteCallFailed"
                           /\ \E a \in ActivateAnswers : ~a.ok /\ RemoteCallFailed(a.detail)
                      \/ o = "Aborted" /\ Aborted}) = 1

C10_Step ==
  /\ PcRank' > PcRank
  /\ Len(calls') <= Len(calls) + 1
  /\ SubSeq(calls', 1, Len(calls)) = calls

\* C10  Linear pipeline without retries: GetDevices is issued once, after the
\* session is open; each device is read at most once and only after
\* GetDevices returned; AddAndActivateConnection is issued at most once and
\* only after a read returned 2; no position is re-entered; every run that
\* is not over can take a step, every step moves forward, and a run ends in
\* exactly one of Succeeded, RemoteCallFailed, NoWifiDeviceFound, Aborted
\* after at most 1 + (number of devices) + 1 remote calls.
C10_LinearPipeline == [](C10_State) /\ [][C10_Step]_vars

\* A run over after the longest call sequence: GetDevices, a read of each of
\* three devices, the activation.
C10_Witness ==
  /\ pc = "exited"
  /\ HasTable /\ Len(Table) = 3
  /\ Len(calls) = 5
  /\ Len(Reads) = 3 /\ Len(Activations) = 1 /\ Len(Enumerations) = 1

=============================================================================
